---- MODULE Spec2Model ----
(***************************************************************************)
(* Model of src/app.py: the Flask handlers extract() and merge(), the      *)
(* helpers allowed_file, extract_pages and merge_pdfs, and the two folders *)
(* (uploads, downloads) they share.                                        *)
(*                                                                         *)
(* Text (file names, page specs) is a sequence of one-character strings,   *)
(* so that strip/split/int/secure_filename are computed, not assumed.      *)
(* A page is <<request, file index, page index>>: the request that         *)
(* uploaded the document, its position in the upload, and the page.        *)
(***************************************************************************)
EXTENDS Integers, Sequences, FiniteSets, TLC

\* ------------------------------------------------------------------ bounds
MaxPages == 3
MaxTokens == 2
MaxFiles == 3

Reqs == {1, 2}

\* ------------------------------------------------------------ text helpers
Digits == <<"0", "1", "2", "3", "4", "5", "6", "7", "8", "9">>

IsDigit(c) == \E d \in 1..10 : Digits[d] = c

DigitVal(c) == (CHOOSE d \in 1..10 : Digits[d] = c) - 1

\* str.isspace for the characters of the model's alphabet
IsSpace(c) == c = " "

Contains(s, c) == \E i \in 1..Len(s) : s[i] = c

\* str.strip()
Strip(s) ==
    LET keep == {i \in 1..Len(s) : ~IsSpace(s[i])}
    IN IF keep = {} THEN <<>>
       ELSE LET lo == CHOOSE i \in keep : \A j \in keep : i <= j
                hi == CHOOSE i \in keep : \A j \in keep : j <= i
            IN SubSeq(s, lo, hi)

\* str.replace(a, b) for single characters
Replace(s, a, b) == [i \in 1..Len(s) |-> IF s[i] = a THEN b ELSE s[i]]

\* str.split(c): the parts between occurrences of c, empty parts kept
RECURSIVE SplitOn(_, _)
SplitOn(s, c) ==
    IF ~Contains(s, c) THEN <<s>>
    ELSE LET p == CHOOSE i \in 1..Len(s) : s[i] = c /\ \A j \in 1..(i-1) : s[j] # c
         IN <<SubSeq(s, 1, p - 1)>> \o SplitOn(SubSeq(s, p + 1, Len(s)), c)

\* str.split(): the maximal runs of non-whitespace
SplitWs(s) == SelectSeq(SplitOn(s, " "), LAMBDA t : t # <<>>)

\* str.rsplit(c, 1)[1]: what follows the last occurrence of c (s contains c)
RSplitLast(s, c) ==
    LET p == CHOOSE i \in 1..Len(s) : s[i] = c /\ \A j \in (i+1)..Len(s) : s[j] # c
    IN SubSeq(s, p + 1, Len(s))

LowerChar(c) ==
    CASE c = "P" -> "p"
      [] c = "D" -> "d"
      [] c = "F" -> "f"
      [] c = "A" -> "a"
      [] c = "B" -> "b"
      [] OTHER -> c

\* str.lower()
Lower(s) == [i \in 1..Len(s) |-> LowerChar(s[i])]

RECURSIVE Join(_, _)
Join(parts, sep) ==
    IF parts = <<>> THEN <<>>
    ELSE IF Len(parts) = 1 THEN parts[1]
    ELSE parts[1] \o sep \o Join(Tail(parts), sep)

\* ------------------------------------------------------------ int(), ranges
RECURSIVE DigitsVal(_)
DigitsVal(s) ==
    IF s = <<>> THEN 0
    ELSE 10 * DigitsVal(SubSeq(s, 1, Len(s) - 1)) + DigitVal(s[Len(s)])

\* int(s): an optional sign, then one or more digits; anything else raises
\* ValueError ("invalid literal for int()")
IntOk(s) ==
    LET body == IF s # <<>> /\ s[1] \in {"+", "-"} THEN Tail(s) ELSE s
    IN body # <<>> /\ \A i \in 1..Len(body) : IsDigit(body[i])

IntVal(s) ==
    IF s[1] = "-" THEN 0 - DigitsVal(Tail(s))
    ELSE IF s[1] = "+" THEN DigitsVal(Tail(s))
    ELSE DigitsVal(s)

\* list(range(a, b + 1))
RangeList(a, b) == IF a > b THEN <<>> ELSE [i \in 1..(b - a + 1) |-> a + i - 1]

\* set(pages)
ListSet(l) == {l[i] : i \in 1..Len(l)}

\* sorted(S)
RECURSIVE Sorted(_)
Sorted(S) ==
    IF S = {} THEN <<>>
    ELSE LET m == CHOOSE x \in S : \A y \in S : x <= y
         IN <<m>> \o Sorted(S \ {m})

\* ------------------------------------------------- page-spec parsing (extract)
SyntaxErrors == {"InvalidLiteral", "TooManyValues"}

\* a slip: a token that is no integer and no range is skipped
ParseToken_SkipBad(page_arg) ==
    IF Contains(page_arg, "-")
    THEN LET parts == SplitOn(page_arg, "-")
         IN IF Len(parts) = 2 /\ IntOk(parts[1]) /\ IntOk(parts[2])
            THEN [ok |-> TRUE, msg |-> "",
                  vals |-> RangeList(IntVal(parts[1]), IntVal(parts[2]))]
            ELSE [ok |-> TRUE, msg |-> "", vals |-> <<>>]
    ELSE IF IntOk(page_arg)
         THEN [ok |-> TRUE, msg |-> "", vals |-> <<IntVal(page_arg)>>]
         ELSE [ok |-> TRUE, msg |-> "", vals |-> <<>>]

\* One iteration of the token loop: the indices the token adds to `pages`, or
\* the ValueError it raises.  `start, end = map(int, parts)` evaluates int() on
\* the parts one at a time and asks for a third before it reports "too many
\* values to unpack".
ParseToken(page_arg) ==
    IF Contains(page_arg, "-")
    THEN LET parts == SplitOn(page_arg, "-")
         IN IF ~IntOk(parts[1]) \/ ~IntOk(parts[2])
            THEN [ok |-> FALSE, msg |-> "InvalidLiteral", vals |-> <<>>]
            ELSE IF Len(parts) > 2
            THEN [ok |-> FALSE,
                  msg |-> IF IntOk(parts[3]) THEN "TooManyValues" ELSE "InvalidLiteral",
                  vals |-> <<>>]
            ELSE [ok |-> TRUE, msg |-> "",
                  vals |-> RangeList(IntVal(parts[1]), IntVal(parts[2]))]
    ELSE IF IntOk(page_arg)
         THEN [ok |-> TRUE, msg |-> "", vals |-> <<IntVal(page_arg)>>]
         ELSE [ok |-> FALSE, msg |-> "InvalidLiteral", vals |-> <<>>]

\* pages_input.replace(',', ' ').split()
PageArgs(pages_input) == SplitWs(Replace(pages_input, ",", " "))

\* The token loop: `pages` after the last token, or the first ValueError.
RECURSIVE ParseLoop(_, _)
ParseLoop(args, pages) ==
    IF args = <<>> THEN [ok |-> TRUE, msg |-> "", pages |-> pages]
    ELSE LET t == ParseToken(args[1])
         IN IF ~t.ok THEN [ok |-> FALSE, msg |-> t.msg, pages |-> <<>>]
            ELSE ParseLoop(Tail(args), pages \o t.vals)

\* a slip: sorted(pages), duplicates kept
RECURSIVE SortedSet_NoDedup(_)
SortedSet_NoDedup(pages) ==
    IF pages = <<>> THEN <<>>
    ELSE LET m == CHOOSE i \in 1..Len(pages) : \A j \in 1..Len(pages) : pages[i] <= pages[j]
         IN <<pages[m]>>
            \o SortedSet_NoDedup(SubSeq(pages, 1, m - 1) \o SubSeq(pages, m + 1, Len(pages)))

\* pages = sorted(set(pages))
SortedSet(pages) == Sorted(ListSet(pages))

ParsePages(pages_input) ==
    LET r == ParseLoop(PageArgs(pages_input), <<>>)
    IN IF r.ok THEN [r EXCEPT !.pages = SortedSet(r.pages)] ELSE r

\* ------------------------------------------------------------- file names
ALLOWED_EXTENSIONS == {<<"p", "d", "f">>}

\* a slip: any name with a dot passes
allowed_file_AnyDot(filename) == Contains(filename, ".")

allowed_file(filename) ==
    Contains(filename, ".") /\ Lower(RSplitLast(filename, ".")) \in ALLOWED_EXTENSIONS

\* the characters werkzeug's secure_filename keeps: [A-Za-z0-9_.-]
SafeChar(c) ==
    IsDigit(c) \/ c \in {"a", "b", "d", "f", "p", "t", "x", "A", "B", "D", "F", "P",
                         "_", ".", "-"}

\* str.strip("._")
StripDots(s) ==
    LET keep == {i \in 1..Len(s) : s[i] \notin {".", "_"}}
    IN IF keep = {} THEN <<>>
       ELSE LET lo == CHOOSE i \in keep : \A j \in keep : i <= j
                hi == CHOOSE i \in keep : \A j \in keep : j <= i
            IN SubSeq(s, lo, hi)

\* werkzeug.utils.secure_filename: path separators become spaces, runs of
\* whitespace become "_", unsafe characters are dropped, leading and trailing
\* dots and underscores are stripped.
secure_filename(filename) ==
    StripDots(SelectSeq(Join(SplitWs(Replace(filename, "/", " ")), <<"_">>), SafeChar))

\* Path(filename).stem of a name without separators
Stem(filename) ==
    LET dots == {i \in 2..Len(filename) : filename[i] = "."}
    IN IF dots = {} THEN filename
       ELSE SubSeq(filename, 1, (CHOOSE i \in dots : \A j \in dots : j <= i) - 1)

\* a slip: the output is named after the whole input name
ExtractOutputName_FullName(filename) ==
    <<"extracted_">> \o filename \o <<".", "p", "d", "f">>

\* f"extracted_{Path(filename).stem}.pdf"
ExtractOutputName(filename) == <<"extracted_">> \o Stem(filename) \o <<".", "p", "d", "f">>

\* "merged.pdf"
MergeOutputName == <<"merged", ".", "p", "d", "f">>

\* ------------------------------------------------------------------ inputs
\* file names a client can send (untrusted)
NameEmpty == <<>>
NameA == <<"a", ".", "p", "d", "f">>
NameDotsA == <<".", ".", "/", "a", ".", "p", "d", "f">>
NameUpperA == <<"a", ".", "P", "D", "F">>
NameUpperB == <<"b", ".", "P", "D", "F">>
NameTxt == <<"a", ".", "t", "x", "t">>
NameNoDot == <<"p", "d", "f">>

Names == {NameEmpty, NameA, NameDotsA, NameUpperA, NameUpperB, NameTxt, NameNoDot}

\* page-spec tokens: integers, ranges (also reversed and over-broad ones) and
\* malformed tokens
Tokens ==
    { <<"1">>, <<"2">>, <<"5">>, <<"0">>, <<"+", "2">>,
      <<"1", "-", "2">>, <<"2", "-", "5">>, <<"1", "-", "9">>, <<"7", "-", "9">>,
      <<"3", "-", "1">>,
      <<"a">>, <<"3", "-">>, <<"-", "3">>, <<"1", "-", "2", "-", "3">>,
      <<"1", "-", "-", "3">> }

TokenLists == UNION {[1..n -> Tokens] : n \in 1..MaxTokens}

\* page specs: up to MaxTokens tokens joined by commas, and a few texts that
\* exercise blanks and whitespace separators
PageSpecs ==
    {Join(ts, <<",">>) : ts \in TokenLists}
    \cup { <<>>, <<" ">>, <<",">>, <<" ", "2", " ">>, <<"2", " ", "1">>,
           <<"2", ",", " ", "1", ",">> }

\* an uploaded document: n pages, or not a PDF at all (n = Corrupt)
Corrupt == 0 - 1

DocSizes == {Corrupt} \cup (0..MaxPages)

\* ------------------------------------------------------------------ files
NoFile == [exists |-> FALSE, by |-> 0, ok |-> FALSE, pages |-> <<>>]

\* a file that was created or truncated by request r and holds no complete
\* document yet
PartialFile(r) == [exists |-> TRUE, by |-> r, ok |-> FALSE, pages |-> <<>>]

\* the bytes of the idx-th document uploaded by request r
DocFile(r, idx, n) ==
    [exists |-> TRUE, by |-> r, ok |-> n # Corrupt,
     pages |-> IF n = Corrupt THEN <<>> ELSE [p \in 1..n |-> <<r, idx, p>>]]

\* an output left in the download folder by an earlier request
OldOutput == [exists |-> TRUE, by |-> 0, ok |-> TRUE, pages |-> <<<<0, 1, 1>>>>]

UploadPaths == {secure_filename(n) : n \in {m \in Names : allowed_file(m)}}

OutputPaths == {ExtractOutputName(p) : p \in UploadPaths} \cup {MergeOutputName}

\* ------------------------------------------------------------------- state
VARIABLES
    uploads,    \* UPLOAD_FOLDER: path -> file
    downloads,  \* DOWNLOAD_FOLDER: path -> file
    req         \* the in-flight requests: their locals, position and response

vars == <<uploads, downloads, req>>

NoExc == [type |-> "none", msg |-> ""]

IdleReq ==
    [kind |-> "none", pc |-> "idle",
     hasPart |-> FALSE, files |-> <<>>, form_pages |-> <<>>, pages_input |-> <<>>,
     i |-> 0, filename |-> <<>>, input_path |-> <<>>, pages |-> <<>>,
     output_filename |-> <<>>, writer |-> <<>>, count |-> 0,
     input_paths |-> <<>>, saved_files |-> <<>>, k |-> 0, j |-> 0, ctx |-> "none",
     exc |-> NoExc, flashes |-> <<>>, redirect |-> "none",
     created |-> {}, outOpened |-> FALSE, skipped |-> {}]

Init ==
    /\ uploads = [p \in UploadPaths |-> NoFile]
    /\ downloads \in {[p \in OutputPaths |-> NoFile], [p \in OutputPaths |-> OldOutput]}
    /\ req = [r \in Reqs |-> IdleReq]

\* ------------------------------------------------------- control-flow helpers
Set(r, rec) == req' = [req EXCEPT ![r] = rec]

\* flash(message, category)
\* cause: the text of the exception a generic message quotes; n: the page
\* count a success message quotes
Flash(rec, cat, msg, cause, n) ==
    Append(rec.flashes, [cat |-> cat, msg |-> msg, cause |-> cause, n |-> n,
                         nfiles |-> IF cat = "success" THEN Len(rec.input_paths) ELSE 0])

\* return redirect(...): the response is sent and the request is over
Return(rec, target) == [rec EXCEPT !.pc = "done", !.redirect = target]

\* The try/except structure of extract() and merge(): where an exception of
\* the given type, raised at position pc, is caught.
InnerTry ==
    {"x_parse", "ep_read", "ep_open_out", "ep_write", "x_remove", "x_flash_ok",
     "m_loop", "m_save_open", "m_save_copy", "m_check", "mp_exists", "mp_read",
     "mp_open_out", "mp_write"}

Handler(rec, type) ==
    IF rec.kind = "extract"
    THEN IF rec.pc \in InnerTry
         THEN (IF type = "ValueError" THEN "x_exc_value" ELSE "x_exc_exists")
         ELSE "x_outer"
    ELSE IF rec.kind = "merge"
    THEN IF rec.pc \in InnerTry \/ (rec.pc \in {"m_cl_exists", "m_cl_remove"}
                                    /\ rec.ctx \in {"reject", "success"})
         THEN "m_cl_exists"
         ELSE "m_outer"
    ELSE "raised"

\* raise: control moves to the handler; a handler of merge() starts its
\* cleanup loop over saved_files
Raise(rec, type, msg) ==
    LET h == Handler(rec, type)
    IN [rec EXCEPT !.pc = h,
                   !.exc = [type |-> type, msg |-> msg],
                   !.j = IF h = "m_cl_exists" THEN 1 ELSE @,
                   !.ctx = IF h = "m_cl_exists"
                           THEN (IF type = "ValueError" THEN "value" ELSE "exc")
                           ELSE @]

\* PdfReader(path): the document at path, or the exception raised
ReadDoc(path) ==
    IF ~uploads[path].exists THEN [ok |-> FALSE, msg |-> "FileNotFound", pages |-> <<>>]
    ELSE IF ~uploads[path].ok THEN [ok |-> FALSE, msg |-> "PdfReadError", pages |-> <<>>]
    ELSE [ok |-> TRUE, msg |-> "", pages |-> uploads[path].pages]

\* os.remove(path)
Remove(path) == uploads' = [uploads EXCEPT ![path] = NoFile]

\* What a write of `mine` by request r leaves in a file that r opened for
\* writing earlier.  When another request has written the same file since, the
\* two writes overlay each other from offset 0: the result is r's bytes, or a
\* mix of both that is no document.
WriteOutcomes(cur, mine, r) ==
    IF cur.ok /\ cur.by # r THEN {mine, PartialFile(r)} ELSE {mine}

\* file.save(input_path), first half: open(dst, "wb") creates or truncates
SaveOpen(r, path) == uploads' = [uploads EXCEPT ![path] = PartialFile(r)]

\* file.save(input_path), second half: copy the stream.  A path that another
\* request removed meanwhile stays removed.
SaveCopy(r, path, doc) ==
    IF ~uploads[path].exists THEN UNCHANGED uploads
    ELSE \E f \in WriteOutcomes(uploads[path], doc, r) :
            uploads' = [uploads EXCEPT ![path] = f]

\* with open(output_path, 'wb') as output_file:
OpenOut(r, path) == downloads' = [downloads EXCEPT ![path] = PartialFile(r)]

\* writer.write(output_file)
WriteOut(r, path, writer) ==
    \E f \in WriteOutcomes(downloads[path],
                           [exists |-> TRUE, by |-> r, ok |-> TRUE, pages |-> writer], r) :
        downloads' = [downloads EXCEPT ![path] = f]

\* --------------------------------------------------------------- extract()
ExtractInput(hasPart, filename, n, form_pages) ==
    [hasPart |-> hasPart, filename |-> filename, n |-> n, form_pages |-> form_pages]

\* a POST /extract arrives
BeginExtract(r, inputs) ==
    /\ req[r].pc = "idle"
    /\ \E in \in inputs :
        Set(r, [req[r] EXCEPT !.kind = "extract", !.pc = "x_validate",
                              !.hasPart = in.hasPart,
                              !.files = IF in.hasPart
                                        THEN <<[filename |-> in.filename, n |-> in.n]>>
                                        ELSE <<>>,
                              !.form_pages = in.form_pages])
    /\ UNCHANGED <<uploads, downloads>>

\* lines 102-119: the checks made before anything is stored
XValidate(r) ==
    LET rec == req[r]
        pin == Strip(rec.form_pages)
        fail(msg) == Return([rec EXCEPT !.flashes = Flash(rec, "error", msg, "", 0),
                                        !.pages_input = IF rec.hasPart THEN pin ELSE @],
                            "index")
    IN /\ rec.pc = "x_validate"
       /\ Set(r, IF ~rec.hasPart THEN fail("SelectFile")
                 ELSE IF rec.files[1].filename = <<>> THEN fail("SelectFile")
                 ELSE IF ~allowed_file(rec.files[1].filename) THEN fail("PdfOnly")
                 ELSE IF pin = <<>> THEN fail("EnterPages")
                 ELSE [rec EXCEPT !.pages_input = pin, !.pc = "x_save_open"])
       /\ UNCHANGED <<uploads, downloads>>

\* lines 122-124: the staged upload is created
XSaveOpen(r) ==
    LET rec == req[r]
        filename == secure_filename(rec.files[1].filename)
    IN /\ rec.pc = "x_save_open"
       /\ SaveOpen(r, filename)
       /\ Set(r, [rec EXCEPT !.filename = filename, !.input_path = filename,
                             !.created = @ \cup {filename}, !.pc = "x_save_copy"])
       /\ UNCHANGED downloads

\* line 124: the upload's bytes are written
XSaveCopy(r) ==
    LET rec == req[r]
    IN /\ rec.pc = "x_save_copy"
       /\ SaveCopy(r, rec.input_path, DocFile(r, 1, rec.files[1].n))
       /\ Set(r, [rec EXCEPT !.pc = "x_parse"])
       /\ UNCHANGED downloads

\* lines 128-140: the page spec is parsed, the output name derived
XParse(r) ==
    LET rec == req[r]
        res == ParsePages(rec.pages_input)
    IN /\ rec.pc = "x_parse"
       /\ Set(r, IF res.ok
                 THEN [rec EXCEPT !.pages = res.pages,
                                  !.output_filename = ExtractOutputName(rec.filename),
                                  !.pc = "ep_read"]
                 ELSE Raise(rec, "ValueError", res.msg))
       /\ UNCHANGED <<uploads, downloads>>

\* a slip: the last page of the document counts as out of range
RECURSIVE CopyPages_OffByOne(_, _)
CopyPages_OffByOne(pages, reader_pages) ==
    IF pages = <<>> THEN <<>>
    ELSE (IF 1 <= pages[1] /\ pages[1] < Len(reader_pages)
          THEN <<reader_pages[pages[1]]>> ELSE <<>>)
         \o CopyPages_OffByOne(Tail(pages), reader_pages)

\* a slip: each page is put in front of the pages copied so far
RECURSIVE CopyPages_Reversed(_, _)
CopyPages_Reversed(pages, reader_pages) ==
    IF pages = <<>> THEN <<>>
    ELSE CopyPages_Reversed(Tail(pages), reader_pages)
         \o (IF 1 <= pages[1] /\ pages[1] <= Len(reader_pages)
             THEN <<reader_pages[pages[1]]>> ELSE <<>>)

\* lines 48-51: the pages of the list that the document has, in list order
RECURSIVE CopyPages(_, _)
CopyPages(pages, reader_pages) ==
    IF pages = <<>> THEN <<>>
    ELSE (IF 1 <= pages[1] /\ pages[1] <= Len(reader_pages)
          THEN <<reader_pages[pages[1]]>> ELSE <<>>)
         \o CopyPages(Tail(pages), reader_pages)

\* extract_pages lines 42-54: open the staged upload, copy the pages, reject
\* an empty result
EpRead(r) ==
    LET rec == req[r]
        doc == ReadDoc(rec.input_path)
        writer == CopyPages(rec.pages, doc.pages)
    IN /\ rec.pc = "ep_read"
       /\ Set(r, IF ~doc.ok THEN Raise(rec, "Exception", doc.msg)
                 ELSE IF Len(writer) = 0
                 THEN Raise([rec EXCEPT !.writer = writer, !.count = 0],
                            "ValueError", "EmptyResult")
                 ELSE [rec EXCEPT !.writer = writer, !.count = Len(writer),
                                  !.pc = "ep_open_out"])
       /\ UNCHANGED <<uploads, downloads>>

\* extract_pages line 56
EpOpenOut(r) ==
    LET rec == req[r]
    IN /\ rec.pc = "ep_open_out"
       /\ OpenOut(r, rec.output_filename)
       /\ Set(r, [rec EXCEPT !.outOpened = TRUE, !.pc = "ep_write"])
       /\ UNCHANGED uploads

\* extract_pages lines 57-59
EpWrite(r) ==
    LET rec == req[r]
    IN /\ rec.pc = "ep_write"
       /\ WriteOut(r, rec.output_filename, rec.writer)
       /\ Set(r, [rec EXCEPT !.pc = "x_remove"])
       /\ UNCHANGED uploads

\* a slip: success is reported with the staged upload left in place
XRemove_NoDelete(r) ==
    LET rec == req[r]
    IN /\ rec.pc = "x_remove"
       /\ Set(r, [rec EXCEPT !.pc = "x_flash_ok"])
       /\ UNCHANGED <<uploads, downloads>>

\* line 145
XRemove(r) ==
    LET rec == req[r]
    IN /\ rec.pc = "x_remove"
       /\ IF uploads[rec.input_path].exists
          THEN Remove(rec.input_path) /\ Set(r, [rec EXCEPT !.pc = "x_flash_ok"])
          ELSE UNCHANGED uploads /\ Set(r, Raise(rec, "Exception", "FileNotFound"))
       /\ UNCHANGED downloads

\* lines 147-148
XFlashOk(r) ==
    LET rec == req[r]
    IN /\ rec.pc = "x_flash_ok"
       /\ Set(r, Return([rec EXCEPT !.flashes = Flash(rec, "success", "Success", "", rec.count)],
                        "download"))
       /\ UNCHANGED <<uploads, downloads>>

\* lines 150-153: except ValueError
XExceptValue(r) ==
    LET rec == req[r]
    IN /\ rec.pc = "x_exc_value"
       /\ IF uploads[rec.input_path].exists
          THEN /\ Remove(rec.input_path)
               /\ Set(r, Return([rec EXCEPT !.flashes = Flash(rec, "error", rec.exc.msg, "", 0)],
                                "index"))
          ELSE UNCHANGED uploads /\ Set(r, Raise(rec, "Exception", "FileNotFound"))
       /\ UNCHANGED downloads

\* lines 154-155 (and 157-158 when the file is gone): except Exception
XExceptExists(r) ==
    LET rec == req[r]
    IN /\ rec.pc = "x_exc_exists"
       /\ Set(r, IF uploads[rec.input_path].exists
                 THEN [rec EXCEPT !.pc = "x_exc_remove"]
                 ELSE Return([rec EXCEPT !.flashes =
                                  Flash(rec, "error", "ErrorOccurred", rec.exc.msg, 0)],
                             "index"))
       /\ UNCHANGED <<uploads, downloads>>

\* lines 156-158
XExceptRemove(r) ==
    LET rec == req[r]
    IN /\ rec.pc = "x_exc_remove"
       /\ IF uploads[rec.input_path].exists
          THEN /\ Remove(rec.input_path)
               /\ Set(r, Return([rec EXCEPT !.flashes =
                                     Flash(rec, "error", "ErrorOccurred", rec.exc.msg, 0)],
                                "index"))
          ELSE UNCHANGED uploads /\ Set(r, Raise(rec, "Exception", "FileNotFound"))
       /\ UNCHANGED downloads

\* lines 160-162: the outer except
XOuter(r) ==
    LET rec == req[r]
    IN /\ rec.pc = "x_outer"
       /\ Set(r, Return([rec EXCEPT !.flashes =
                             Flash(rec, "error", "ErrorOccurred", rec.exc.msg, 0)],
                        "index"))
       /\ UNCHANGED <<uploads, downloads>>

\* extract() without its outer except clause
ExtractBody(r) ==
    \/ XValidate(r) \/ XSaveOpen(r) \/ XSaveCopy(r) \/ XParse(r)
    \/ EpRead(r) \/ EpOpenOut(r) \/ EpWrite(r)
    \/ XRemove(r) \/ XFlashOk(r)
    \/ XExceptValue(r) \/ XExceptExists(r) \/ XExceptRemove(r)

Extract(r) == ExtractBody(r) \/ XOuter(r)

\* ----------------------------------------------------------------- merge()
MergeInput(hasPart, files) == [hasPart |-> hasPart, files |-> files]

\* a POST /merge arrives
BeginMerge(r, inputs) ==
    /\ req[r].pc = "idle"
    /\ \E in \in inputs :
        Set(r, [req[r] EXCEPT !.kind = "merge", !.pc = "m_validate",
                              !.hasPart = in.hasPart, !.files = in.files])
    /\ UNCHANGED <<uploads, downloads>>

\* lines 168-182
MValidate(r) ==
    LET rec == req[r]
    IN /\ rec.pc = "m_validate"
       /\ Set(r, IF ~rec.hasPart
                 THEN Return([rec EXCEPT !.flashes = Flash(rec, "error", "SelectFile", "", 0)],
                             "index")
                 ELSE IF rec.files = <<>> \/ rec.files[1].filename = <<>>
                 THEN Return([rec EXCEPT !.flashes = Flash(rec, "error", "AtLeastOne", "", 0)],
                             "index")
                 ELSE [rec EXCEPT !.input_paths = <<>>, !.saved_files = <<>>,
                                  !.i = 1, !.pc = "m_loop"])
       /\ UNCHANGED <<uploads, downloads>>

\* lines 185-198: the next file of the batch is skipped, rejected or named
MLoop(r) ==
    LET rec == req[r]
        file == rec.files[rec.i]
    IN /\ rec.pc = "m_loop"
       /\ Set(r, IF rec.i > Len(rec.files) THEN [rec EXCEPT !.pc = "m_check"]
                 ELSE IF file.filename = <<>> THEN [rec EXCEPT !.i = @ + 1]
                 ELSE IF ~allowed_file(file.filename)
                 THEN [rec EXCEPT !.flashes = Flash(rec, "error", "PdfOnly", "", 0),
                                  !.ctx = "reject", !.j = 1, !.pc = "m_cl_exists"]
                 ELSE [rec EXCEPT !.filename = secure_filename(file.filename),
                                  !.input_path = secure_filename(file.filename),
                                  !.pc = "m_save_open"])
       /\ UNCHANGED <<uploads, downloads>>

\* line 199, first half
MSaveOpen(r) ==
    LET rec == req[r]
    IN /\ rec.pc = "m_save_open"
       /\ SaveOpen(r, rec.input_path)
       /\ Set(r, [rec EXCEPT !.created = @ \cup {rec.input_path}, !.pc = "m_save_copy"])
       /\ UNCHANGED downloads

\* lines 199-201
MSaveCopy(r) ==
    LET rec == req[r]
    IN /\ rec.pc = "m_save_copy"
       /\ SaveCopy(r, rec.input_path, DocFile(r, rec.i, rec.files[rec.i].n))
       /\ Set(r, [rec EXCEPT !.input_paths = Append(@, rec.input_path),
                             !.saved_files = Append(@, rec.input_path),
                             !.i = @ + 1, !.pc = "m_loop"])
       /\ UNCHANGED downloads

\* lines 203-211
MCheck(r) ==
    LET rec == req[r]
    IN /\ rec.pc = "m_check"
       /\ Set(r, IF rec.input_paths = <<>>
                 THEN Return([rec EXCEPT !.flashes = Flash(rec, "error", "NoValidFiles", "", 0)],
                             "index")
                 ELSE [rec EXCEPT !.output_filename = MergeOutputName,
                                  !.writer = <<>>, !.count = 0, !.k = 1,
                                  !.pc = "mp_exists"])
       /\ UNCHANGED <<uploads, downloads>>

\* merge_pdfs called on its own with a list of paths
BeginMergePdfs(r, lists) ==
    /\ req[r].pc = "idle"
    /\ \E paths \in lists :
        Set(r, [req[r] EXCEPT !.kind = "merge_pdfs", !.pc = "mp_exists",
                              !.input_paths = paths,
                              !.output_filename = MergeOutputName,
                              !.writer = <<>>, !.count = 0, !.k = 1])
    /\ UNCHANGED <<uploads, downloads>>

\* merge_pdfs lines 73-75
MpExists(r) ==
    LET rec == req[r]
    IN /\ rec.pc = "mp_exists"
       /\ rec.k <= Len(rec.input_paths)
       /\ Set(r, IF uploads[rec.input_paths[rec.k]].exists
                 THEN [rec EXCEPT !.pc = "mp_read"]
                 ELSE [rec EXCEPT !.k = @ + 1, !.skipped = @ \cup {rec.k}])
       /\ UNCHANGED <<uploads, downloads>>

\* merge_pdfs lines 77-80
MpRead(r) ==
    LET rec == req[r]
        doc == ReadDoc(rec.input_paths[rec.k])
    IN /\ rec.pc = "mp_read"
       /\ Set(r, IF ~doc.ok THEN Raise(rec, "Exception", doc.msg)
                 ELSE [rec EXCEPT !.writer = @ \o doc.pages,
                                  !.count = @ + Len(doc.pages),
                                  !.k = @ + 1, !.pc = "mp_exists"])
       /\ UNCHANGED <<uploads, downloads>>

\* a slip: the output is written whatever the page count
MpCheck_NoZeroCheck(r) ==
    LET rec == req[r]
    IN /\ rec.pc = "mp_exists"
       /\ rec.k > Len(rec.input_paths)
       /\ Set(r, [rec EXCEPT !.pc = "mp_open_out"])
       /\ UNCHANGED <<uploads, downloads>>

\* merge_pdfs lines 82-83
MpCheck(r) ==
    LET rec == req[r]
    IN /\ rec.pc = "mp_exists"
       /\ rec.k > Len(rec.input_paths)
       /\ Set(r, IF rec.count = 0 THEN Raise(rec, "ValueError", "EmptyResult")
                 ELSE [rec EXCEPT !.pc = "mp_open_out"])
       /\ UNCHANGED <<uploads, downloads>>

\* merge_pdfs line 85
MpOpenOut(r) ==
    LET rec == req[r]
    IN /\ rec.pc = "mp_open_out"
       /\ OpenOut(r, rec.output_filename)
       /\ Set(r, [rec EXCEPT !.outOpened = TRUE, !.pc = "mp_write"])
       /\ UNCHANGED uploads

\* merge_pdfs lines 86-88; back in merge(), the loop of lines 214-216 starts
MpWrite(r) ==
    LET rec == req[r]
    IN /\ rec.pc = "mp_write"
       /\ WriteOut(r, rec.output_filename, rec.writer)
       /\ Set(r, IF rec.kind = "merge"
                 THEN [rec EXCEPT !.ctx = "success", !.j = 1, !.pc = "m_cl_exists"]
                 ELSE [rec EXCEPT !.pc = "returned"])
       /\ UNCHANGED uploads

\* The four loops that delete the staged uploads: lines 192-194 (ctx
\* "reject"), 214-216 ("success", over input_paths), 222-224 ("value") and
\* 228-230 ("exc").  input_paths and saved_files always hold the same paths.
CleanupList(rec) == IF rec.ctx = "success" THEN rec.input_paths ELSE rec.saved_files

\* if os.path.exists(path):
MCleanupExists(r) ==
    LET rec == req[r]
    IN /\ rec.pc = "m_cl_exists"
       /\ rec.j <= Len(CleanupList(rec))
       /\ Set(r, IF uploads[CleanupList(rec)[rec.j]].exists
                 THEN [rec EXCEPT !.pc = "m_cl_remove"]
                 ELSE [rec EXCEPT !.j = @ + 1])
       /\ UNCHANGED <<uploads, downloads>>

\* a slip: the loop moves on without removing the file
MCleanupRemove_Skip(r) ==
    LET rec == req[r]
    IN /\ rec.pc = "m_cl_remove"
       /\ Set(r, [rec EXCEPT !.j = @ + 1, !.pc = "m_cl_exists"])
       /\ UNCHANGED <<uploads, downloads>>

\* os.remove(path)
MCleanupRemove(r) ==
    LET rec == req[r]
        path == CleanupList(rec)[rec.j]
    IN /\ rec.pc = "m_cl_remove"
       /\ IF uploads[path].exists
          THEN Remove(path) /\ Set(r, [rec EXCEPT !.j = @ + 1, !.pc = "m_cl_exists"])
          ELSE UNCHANGED uploads /\ Set(r, Raise(rec, "Exception", "FileNotFound"))
       /\ UNCHANGED downloads

\* what follows each loop: lines 195, 218-219, 225-226, 231-232
MCleanupDone(r) ==
    LET rec == req[r]
    IN /\ rec.pc = "m_cl_exists"
       /\ rec.j > Len(CleanupList(rec))
       /\ Set(r, CASE rec.ctx = "reject" -> Return(rec, "index")
                   [] rec.ctx = "success" ->
                        Return([rec EXCEPT !.flashes =
                                    Flash(rec, "success", "Success", "", rec.count)],
                               "download")
                   [] rec.ctx = "value" ->
                        Return([rec EXCEPT !.flashes = Flash(rec, "error", rec.exc.msg, "", 0)],
                               "index")
                   [] OTHER ->
                        Return([rec EXCEPT !.flashes =
                                    Flash(rec, "error", "ErrorOccurred", rec.exc.msg, 0)],
                               "index"))
       /\ UNCHANGED <<uploads, downloads>>

\* lines 234-236: the outer except
MOuter(r) ==
    LET rec == req[r]
    IN /\ rec.pc = "m_outer"
       /\ Set(r, Return([rec EXCEPT !.flashes =
                             Flash(rec, "error", "ErrorOccurred", rec.exc.msg, 0)],
                        "index"))
       /\ UNCHANGED <<uploads, downloads>>

MergePdfs(r) == MpExists(r) \/ MpRead(r) \/ MpCheck(r) \/ MpOpenOut(r) \/ MpWrite(r)

\* merge() without its outer except clause
MergeBody(r) ==
    \/ MValidate(r) \/ MLoop(r) \/ MSaveOpen(r) \/ MSaveCopy(r) \/ MCheck(r)
    \/ MergePdfs(r)
    \/ MCleanupExists(r) \/ MCleanupRemove(r) \/ MCleanupDone(r)

Merge(r) == MergeBody(r) \/ MOuter(r)

\* ------------------------------------------------------------- I/O failures
\* An I/O call of the handlers raises OSError (disk full, permissions, a
\* handle held open elsewhere) instead of completing.

\* file.save: open(dst, "wb") fails, nothing is created
SaveOpenFails(r) ==
    LET rec == req[r]
    IN /\ rec.pc \in {"x_save_open", "m_save_open"}
       /\ Set(r, Raise(IF rec.kind = "extract"
                       THEN [rec EXCEPT !.filename = secure_filename(rec.files[1].filename),
                                        !.input_path = secure_filename(rec.files[1].filename)]
                       ELSE rec,
                       "Exception", "OSError"))
       /\ UNCHANGED <<uploads, downloads>>

\* file.save: the copy fails after the destination was created
SaveCopyFails(r) ==
    LET rec == req[r]
    IN /\ rec.pc \in {"x_save_copy", "m_save_copy"}
       /\ Set(r, Raise(rec, "Exception", "OSError"))
       /\ UNCHANGED <<uploads, downloads>>

\* writer.add_page raises on a page of a document that opened
AddPageFails(r) ==
    LET rec == req[r]
        path == IF rec.pc = "ep_read" THEN rec.input_path ELSE rec.input_paths[rec.k]
    IN /\ rec.pc \in {"ep_read", "mp_read"}
       /\ ReadDoc(path).ok /\ ReadDoc(path).pages # <<>>
       /\ Set(r, Raise(rec, "Exception", "AddPageError"))
       /\ UNCHANGED <<uploads, downloads>>

\* open(output_path, 'wb') fails, nothing is created or truncated
OpenOutFails(r) ==
    LET rec == req[r]
    IN /\ rec.pc \in {"ep_open_out", "mp_open_out"}
       /\ Set(r, Raise(rec, "Exception", "OSError"))
       /\ UNCHANGED <<uploads, downloads>>

\* writer.write fails after the output was opened
WriteFails(r) ==
    LET rec == req[r]
    IN /\ rec.pc \in {"ep_write", "mp_write"}
       /\ Set(r, Raise(rec, "Exception", "OSError"))
       /\ UNCHANGED <<uploads, downloads>>

\* os.remove fails on a file that exists
RemoveFails(r) ==
    LET rec == req[r]
        path == IF rec.kind = "extract" THEN rec.input_path ELSE CleanupList(rec)[rec.j]
    IN /\ rec.pc \in {"x_remove", "x_exc_value", "x_exc_remove", "m_cl_remove"}
       /\ uploads[path].exists
       /\ Set(r, Raise(rec, "Exception", "OSError"))
       /\ UNCHANGED <<uploads, downloads>>

Faults(r) ==
    \/ SaveOpenFails(r) \/ SaveCopyFails(r) \/ AddPageFails(r)
    \/ OpenOutFails(r) \/ WriteFails(r) \/ RemoveFails(r)

\* ---------------------------------------------------------- specifications
\* the uploaded files of a merge batch: a name and a document each
Uploads(names, sizes) == {[filename |-> f, n |-> z] : f \in names, z \in sizes}

FileLists(files, maxlen) == UNION {[1..n -> files] : n \in 1..maxlen}

\* Two requests in flight at once (the development server handles each
\* request on its own thread), no I/O failures.
ConcExtractInputs ==
    {ExtractInput(TRUE, f, n, p) :
        f \in {NameA, NameUpperA, NameUpperB, NameTxt}, n \in {1, 2},
        p \in {<<"1">>, <<"a">>}}

ConcMergeInputs ==
    {MergeInput(TRUE, fs) : fs \in FileLists(Uploads({NameA, NameUpperB, NameTxt}, {1}), 2)}

Next ==
    \E r \in Reqs :
        \/ BeginExtract(r, ConcExtractInputs)
        \/ BeginMerge(r, ConcMergeInputs)
        \/ Extract(r)
        \/ Merge(r)

Spec == Init /\ [][Next]_vars

\* One request, no I/O failures, every input.  The outer except clauses are
\* left out of the next-state relation: with no I/O failure and no other
\* request, nothing raises outside the inner try or inside its handlers.
SeqExtractInputs ==
    {ExtractInput(FALSE, NameA, 1, <<"1">>)}
    \cup {ExtractInput(TRUE, f, 1, p) : f \in Names, p \in {<<>>, <<" ">>, <<"1">>}}
    \cup {ExtractInput(TRUE, NameA, n, p) : n \in DocSizes, p \in PageSpecs}

SeqMergeInputs ==
    {MergeInput(FALSE, <<>>)}
    \cup {MergeInput(TRUE, fs) :
            fs \in FileLists(Uploads({NameEmpty, NameTxt}, {1})
                              \cup Uploads({NameA, NameUpperB}, {Corrupt, 0, 2}),
                              MaxFiles)}

PathLists == UNION {[1..n -> UploadPaths] : n \in 0..MaxFiles}

NextSeq ==
    \/ BeginExtract(1, SeqExtractInputs)
    \/ BeginMerge(1, SeqMergeInputs)
    \/ BeginMergePdfs(1, PathLists)
    \/ ExtractBody(1)
    \/ MergeBody(1)

SpecSeq == Init /\ [][NextSeq]_vars

\* One request, with I/O failures.
FaultExtractInputs ==
    {ExtractInput(TRUE, NameA, n, p) :
        n \in {Corrupt, 1}, p \in {<<"1">>, <<"5">>, <<"a">>}}

FaultMergeInputs ==
    {MergeInput(TRUE, fs) :
        fs \in FileLists(Uploads({NameA, NameUpperB, NameTxt}, {Corrupt, 1}), MaxFiles)}

NextFault ==
    \/ BeginExtract(1, FaultExtractInputs)
    \/ BeginMerge(1, FaultMergeInputs)
    \/ Extract(1)
    \/ Merge(1)
    \/ Faults(1)

SpecFault == Init /\ [][NextFault]_vars

\* ================================================================== claims
Done(r) == req[r].pc = "done"

\* the request's response is a failure: an error message and no download
Failed(r) ==
    /\ req[r].redirect = "index"
    /\ \A m \in 1..Len(req[r].flashes) : req[r].flashes[m].cat = "error"

\* the files in the upload folder that request r created and that still exist
OwnUploads(r) ==
    {p \in req[r].created : uploads[p].exists /\ uploads[p].by = r}

\* C1: when an extract request has completed, whether in success or failure
\* and whatever I/O call failed on the way, no file that it created in the
\* upload folder exists.
C1_ExtractCleanup ==
    \A r \in Reqs : req[r].kind = "extract" /\ Done(r) => OwnUploads(r) = {}

\* C2: when a merge request has completed, whether in success or failure and
\* whatever I/O call failed on the way, no file that it created in the upload
\* folder exists, the one being saved when the failure happened included.
C2_MergeCleanup ==
    \A r \in Reqs : req[r].kind = "merge" /\ Done(r) => OwnUploads(r) = {}

\* the merge request r has met a file whose extension is not accepted
Rejected(r) ==
    /\ req[r].kind = "merge"
    /\ \E m \in 1..Len(req[r].flashes) : req[r].flashes[m].msg = "PdfOnly"

\* the files of the batch before the k-th that merge() stages: not blank
NonBlankBefore(r, k) == {m \in 1..(k - 1) : req[r].files[m].filename # <<>>}

\* C3: when the k-th file of a merge batch fails extension validation, then
\* by the time the response is returned every upload staged for files 1..k-1
\* is deleted; from the rejection on no further file is staged (exactly the
\* non-blank files before k were), and no merged output is opened or written.
C3_MergeBatchRejection ==
    \A r \in Reqs :
        Rejected(r) =>
            /\ Len(req[r].saved_files) = Cardinality(NonBlankBefore(r, req[r].i))
            /\ req[r].pc \notin {"m_save_open", "m_save_copy", "mp_open_out", "mp_write"}
            /\ ~req[r].outOpened
            /\ \A p \in OutputPaths : downloads[p].by # r
            /\ Done(r) => /\ \A p \in UploadPaths : ~uploads[p].exists
                          /\ Failed(r)

\* a batch whose third file is rejected after two were staged has completed
C3_Witness ==
    \E r \in Reqs :
        /\ Rejected(r) /\ Done(r)
        /\ req[r].i = 3
        /\ Len(req[r].saved_files) = 2
        /\ req[r].saved_files[1] # req[r].saved_files[2]

\* the request holds a staged upload at input_path that it has not released
HoldsUpload(r) ==
    /\ req[r].kind = "extract"
    /\ req[r].pc \in {"x_parse", "ep_read", "ep_open_out", "ep_write", "x_remove"}

\* C4: with two requests in flight, a staged upload that a request has
\* created and not yet released is still there and is still the file that
\* request wrote: no other request has overwritten or deleted it.
C4_ExclusiveOwnership ==
    \A r \in Reqs :
        /\ HoldsUpload(r) =>
              /\ uploads[req[r].input_path].exists
              /\ uploads[req[r].input_path].by = r
        /\ req[r].kind = "merge" /\ req[r].pc = "mp_read" =>
              /\ uploads[req[r].input_paths[req[r].k]].exists
              /\ uploads[req[r].input_paths[req[r].k]].by = r

\* ---- what the claims mean by extension, blank, integer, range
\* the name ends in ".pdf", in any letter case
PdfExtension(name) ==
    /\ Len(name) >= 4
    /\ Lower(SubSeq(name, Len(name) - 3, Len(name))) = <<".", "p", "d", "f">>

BlankText(text) == \A c \in 1..Len(text) : text[c] = " "

\* a single integer N: digits, with or without a plus sign
IsIntegerText(t) ==
    LET body == IF t # <<>> /\ t[1] = "+" THEN Tail(t) ELSE t
    IN body # <<>> /\ \A c \in 1..Len(body) : IsDigit(body[c])

IntegerOf(t) == IF t[1] = "+" THEN DigitsVal(Tail(t)) ELSE DigitsVal(t)

\* the positions at which t divides into A-B with A and B integers
RangeDashes(t) ==
    {d \in 1..Len(t) : /\ t[d] = "-"
                       /\ IsIntegerText(SubSeq(t, 1, d - 1))
                       /\ IsIntegerText(SubSeq(t, d + 1, Len(t)))}

IsRangeToken(t) == RangeDashes(t) # {}

RangeLo(t) == IntegerOf(SubSeq(t, 1, (CHOOSE d \in RangeDashes(t) : TRUE) - 1))

RangeHi(t) == IntegerOf(SubSeq(t, (CHOOSE d \in RangeDashes(t) : TRUE) + 1, Len(t)))

WellFormedToken(t) == IsIntegerText(t) \/ IsRangeToken(t)

\* the tokens of a page spec: what commas and blanks separate
SpecTokens(text) == ListSet(PageArgs(text))

ValidSpec(text) == \A t \in SpecTokens(text) : WellFormedToken(t)

\* the indices a valid page spec names
NamedSet(text) ==
    UNION {IF IsIntegerText(t) THEN {IntegerOf(t)} ELSE RangeLo(t)..RangeHi(t) :
           t \in SpecTokens(text)}

\* the extract request r passed validation and staged its upload
Staged(r) == req[r].kind = "extract" /\ req[r].created # {}

\* C5: an extract request whose file part is missing, whose file name is
\* empty, whose extension is not .pdf or whose page spec is blank never gets
\* past validation: it creates no file in the upload folder, opens no output
\* and ends in failure with one error message.  A merge request stages only
\* files whose extension is .pdf.
C5_ValidationBeforeStaging ==
    \A r \in Reqs :
        /\ ( /\ req[r].kind = "extract"
             /\ \/ ~req[r].hasPart
                \/ req[r].files[1].filename = <<>>
                \/ ~PdfExtension(req[r].files[1].filename)
                \/ BlankText(req[r].form_pages) )
           => /\ req[r].pc \in {"x_validate", "done"}
              /\ req[r].created = {}
              /\ ~req[r].outOpened
              /\ \A p \in UploadPaths : ~uploads[p].exists
              /\ \A p \in OutputPaths : downloads[p].by # r
              /\ Done(r) => Failed(r) /\ Len(req[r].flashes) = 1
        /\ req[r].kind = "merge"
           => /\ req[r].pc \in {"m_save_open", "m_save_copy"}
                    => PdfExtension(req[r].files[req[r].i].filename)
              /\ \A p \in req[r].created :
                    \E m \in 1..Len(req[r].files) :
                        /\ PdfExtension(req[r].files[m].filename)
                        /\ secure_filename(req[r].files[m].filename) = p

\* an extract request for a file named a.txt has ended
C5_Witness ==
    \E r \in Reqs :
        /\ req[r].kind = "extract" /\ Done(r)
        /\ req[r].hasPart
        /\ req[r].files[1].filename = NameTxt
        /\ ~BlankText(req[r].form_pages)

\* extract_pages or merge_pdfs was called and its copying loop ran to the end
LoopEnded(r) ==
    /\ req[r].output_filename # <<>>
    /\ req[r].pc \notin {"ep_read", "mp_exists", "mp_read"}
    /\ req[r].exc.msg \notin {"PdfReadError", "FileNotFound"}

\* C6: extract_pages and merge_pdfs open and write their output only with at
\* least one page in the writer; when the copying loop ends with no page
\* copied they raise the empty-result error and the output is not touched.
C6_ZeroPageRejection ==
    \A r \in Reqs :
        /\ ( \/ req[r].outOpened
             \/ req[r].pc \in {"ep_open_out", "ep_write", "mp_open_out", "mp_write"}
             \/ \E p \in OutputPaths : downloads[p].by = r )
           => Len(req[r].writer) > 0 /\ req[r].count = Len(req[r].writer)
        /\ LoopEnded(r) /\ Len(req[r].writer) = 0
           => /\ req[r].exc = [type |-> "ValueError", msg |-> "EmptyResult"]
              /\ ~req[r].outOpened

\* merge_pdfs called with an empty list of paths has raised the empty-result
\* error
C6_Witness ==
    \E r \in Reqs :
        /\ req[r].kind = "merge_pdfs"
        /\ req[r].input_paths = <<>>
        /\ req[r].pc = "raised"
        /\ req[r].exc.msg = "EmptyResult"

\* C7: an extract request whose page spec holds a range A-B with A > B fails,
\* whatever the other tokens: no download, no output opened, the staged
\* upload deleted.
C7_InvalidRangeRejected ==
    \A r \in Reqs :
        ( /\ Staged(r) /\ Done(r)
          /\ \E t \in SpecTokens(req[r].form_pages) :
                IsRangeToken(t) /\ RangeLo(t) > RangeHi(t) )
        => Failed(r) /\ ~req[r].outOpened /\ OwnUploads(r) = {}

\* C8: an extract request whose page spec holds a token that is neither an
\* integer nor a range A-B never reaches extraction; it ends in failure with
\* one message, a page-spec syntax error, with the staged upload deleted and
\* no output opened, whatever the other tokens.
C8_MalformedTokenRejected ==
    \A r \in Reqs :
        Staged(r) /\ ~ValidSpec(req[r].form_pages)
        => /\ req[r].pc \in {"x_save_copy", "x_parse", "x_exc_value", "done"}
           /\ req[r].output_filename = <<>>
           /\ ~req[r].outOpened
           /\ \A p \in OutputPaths : downloads[p].by # r
           /\ Done(r) => /\ Failed(r)
                         /\ Len(req[r].flashes) = 1
                         /\ req[r].flashes[1].msg \in SyntaxErrors
                         /\ \A p \in UploadPaths : ~uploads[p].exists

\* a request whose spec holds a well-formed token and then a malformed one
\* has ended
C8_Witness ==
    \E r \in Reqs :
        /\ Staged(r) /\ Done(r)
        /\ Len(PageArgs(req[r].form_pages)) = 2
        /\ WellFormedToken(PageArgs(req[r].form_pages)[1])
        /\ ~WellFormedToken(PageArgs(req[r].form_pages)[2])
        /\ req[r].files[1].n > 0

StrictlyIncreasing(l) == \A a \in 1..Len(l) : \A b \in 1..Len(l) : a < b => l[a] < l[b]

\* C9: the page list of a valid page spec is strictly increasing and holds
\* exactly the indices its tokens name; the list is therefore the same for
\* any two specs that name the same set, whatever the order, repetition or
\* overlap of their tokens.
C9_OrderIndependentParsing ==
    \A r \in Reqs :
        ( /\ Staged(r) /\ ValidSpec(req[r].form_pages)
          /\ req[r].pc \notin {"x_save_copy", "x_parse"} )
        => /\ req[r].output_filename # <<>>
           /\ StrictlyIncreasing(req[r].pages)
           /\ ListSet(req[r].pages) = NamedSet(req[r].form_pages)

\* "5,1-2" has been parsed to [1, 2, 5] and is handed to extract_pages
C9_Witness ==
    \E r \in Reqs :
        /\ req[r].pc = "ep_read"
        /\ req[r].form_pages = <<"5", ",", "1", "-", "2">>
        /\ req[r].pages = <<1, 2, 5>>

\* the page indices of a sequence of pages
PageIndices(pages) == {pages[m][3] : m \in 1..Len(pages)}

\* C10: for a valid page spec and a document of n pages, the request ends
\* with the nothing-to-extract error exactly when no named index lies in
\* 1..n; otherwise it succeeds and the output holds exactly the pages whose
\* indices the spec names within 1..n.
C10_BoundsTolerance ==
    \A r \in Reqs :
        ( /\ Staged(r) /\ Done(r)
          /\ ValidSpec(req[r].form_pages)
          /\ req[r].files[1].n # Corrupt )
        => LET want == NamedSet(req[r].form_pages) \cap (1..req[r].files[1].n)
               out == downloads[req[r].output_filename]
           IN /\ Len(req[r].flashes) = 1
              /\ want = {} <=> req[r].flashes[1].msg = "EmptyResult"
              /\ want = {} => Failed(r) /\ ~req[r].outOpened
              /\ want # {} => /\ req[r].redirect = "download"
                              /\ req[r].flashes[1].cat = "success"
                              /\ req[r].flashes[1].n = Cardinality(want)
                              /\ out.ok /\ out.by = r
                              /\ Len(out.pages) = Cardinality(want)
                              /\ PageIndices(out.pages) = want

\* "1-9" on a document of 3 pages has ended in success with 3 pages
C10_Witness ==
    \E r \in Reqs :
        /\ Staged(r) /\ Done(r)
        /\ req[r].form_pages = <<"1", "-", "9">>
        /\ req[r].files[1].n = 3
        /\ req[r].redirect = "download"
        /\ Len(downloads[req[r].output_filename].pages) = 3

\* extract_pages has returned to extract()
ExtractPagesReturned(r) ==
    /\ req[r].kind = "extract"
    /\ \/ req[r].pc \in {"x_remove", "x_flash_ok"}
       \/ Done(r) /\ req[r].redirect = "download"

\* the indices of the list that a document of n pages has, in list order
InRange(pages, n) == SelectSeq(pages, LAMBDA x : 1 <= x /\ x <= n)

\* C11: when extract_pages has returned, the k-th page of its output is the
\* source page at the k-th in-range index of the page list, the list being
\* ascending, so that every page is copied once; the count it returned, which
\* the success message quotes, is the number of pages of the output.
C11_ExtractionOrderAndCount ==
    \A r \in Reqs :
        ExtractPagesReturned(r) =>
            LET idx == InRange(req[r].pages, req[r].files[1].n)
                out == downloads[req[r].output_filename]
            IN /\ out.ok /\ out.by = r
               /\ Len(out.pages) = Len(idx)
               /\ \A k \in 1..Len(idx) : out.pages[k] = <<r, 1, idx[k]>>
               /\ StrictlyIncreasing(idx)
               /\ req[r].count = Len(out.pages)
               /\ Done(r) => req[r].flashes[Len(req[r].flashes)].n = Len(out.pages)

\* the list [2, 3, 4, 5] was extracted from a document of 3 pages: the output
\* holds pages 2 and 3
C11_Witness ==
    \E r \in Reqs :
        /\ ExtractPagesReturned(r) /\ Done(r)
        /\ req[r].pages = <<2, 3, 4, 5>>
        /\ req[r].files[1].n = 3
        /\ downloads[req[r].output_filename].pages = <<<<r, 1, 2>>, <<r, 1, 3>>>>

\* the positions in the batch of the files merge() stages: the non-blank ones
StagedIdx(files) ==
    SelectSeq([m \in 1..Len(files) |-> m], LAMBDA m : files[m].filename # <<>>)

\* the pages of the idx-th uploaded document of request r
DocPages(r, idx, n) == IF n = Corrupt THEN <<>> ELSE [p \in 1..n |-> <<r, idx, p>>]

\* the pages of the uploaded documents at positions idxs, in that order
RECURSIVE ConcatDocs(_, _, _)
ConcatDocs(r, files, idxs) ==
    IF idxs = <<>> THEN <<>>
    ELSE DocPages(r, idxs[1], files[idxs[1]].n) \o ConcatDocs(r, files, Tail(idxs))

MergeSucceeded(r) == req[r].kind = "merge" /\ Done(r) /\ req[r].redirect = "download"

\* C12: when a merge request has succeeded, the merged output holds the pages
\* of the uploaded documents D1..Dn in upload order, each document's pages in
\* their own order, and the total in the success message is the sum of the
\* documents' page counts.
C12_MergeOrderAndTotal ==
    \A r \in Reqs :
        MergeSucceeded(r) =>
            LET want == ConcatDocs(r, req[r].files, StagedIdx(req[r].files))
            IN /\ downloads[MergeOutputName].pages = want
               /\ req[r].flashes[Len(req[r].flashes)].n = Len(want)

\* the documents at positions idxs that open and have a page
Readable(files, idxs) == SelectSeq(idxs, LAMBDA m : files[m].n > 0)

\* every file of the batch passes validation and no two get the same path
CleanBatch(files) ==
    /\ \A m \in 1..Len(files) : files[m].filename # <<>> => PdfExtension(files[m].filename)
    /\ \A a \in 1..Len(files) : \A b \in 1..Len(files) :
          ( /\ a # b /\ files[a].filename # <<>> /\ files[b].filename # <<>> )
          => secure_filename(files[a].filename) # secure_filename(files[b].filename)

\* C13: a merge batch with an input that cannot be opened and another that
\* can does not fail: the request succeeds and the output holds exactly the
\* pages of the readable inputs, in input order.
C13_MergePartialFailureTolerance ==
    \A r \in Reqs :
        ( /\ req[r].kind = "merge" /\ Done(r)
          /\ req[r].hasPart /\ req[r].files # <<>> /\ req[r].files[1].filename # <<>>
          /\ CleanBatch(req[r].files)
          /\ \E m \in 1..Len(req[r].files) :
                req[r].files[m].filename # <<>> /\ req[r].files[m].n = Corrupt
          /\ Readable(req[r].files, StagedIdx(req[r].files)) # <<>> )
        => /\ req[r].redirect = "download"
           /\ downloads[MergeOutputName].pages =
                 ConcatDocs(r, req[r].files, Readable(req[r].files, StagedIdx(req[r].files)))

\* C19: the non-blank files of one merge batch are staged at pairwise
\* distinct paths, and when all are staged each path of input_paths holds the
\* bytes of its own uploaded document.
C19_DistinctStagingPaths ==
    \A r \in Reqs :
        req[r].kind = "merge" =>
            /\ \A a \in 1..Len(req[r].input_paths) : \A b \in 1..Len(req[r].input_paths) :
                  a # b => req[r].input_paths[a] # req[r].input_paths[b]
            /\ req[r].pc = "m_check" =>
                  \A m \in 1..Len(req[r].input_paths) :
                      LET idx == StagedIdx(req[r].files)[m]
                      IN uploads[req[r].input_paths[m]]
                            = DocFile(r, idx, req[r].files[idx].n)

\* The texts merge() can flash are NoFile, NoFilesSelected, PdfOnly,
\* NoValidFiles, the exception's own text, Generic and Success; Success
\* quotes a number of files and a number of pages.
NamesSkipped(f) == f.msg = "Skipped"

\* C14: when merge_pdfs has skipped an input of a merge request, the request's
\* messages say which inputs were skipped, and the number of files in the
\* success message does not count the skipped ones.
C14_SkippedInputReporting ==
    \A r \in Reqs :
        ( req[r].kind = "merge" /\ Done(r) /\ req[r].skipped # {} ) =>
            /\ \E m \in 1..Len(req[r].flashes) : NamesSkipped(req[r].flashes[m])
            /\ \A m \in 1..Len(req[r].flashes) :
                  req[r].flashes[m].cat = "success" =>
                      req[r].flashes[m].nfiles
                          = Len(req[r].input_paths) - Cardinality(req[r].skipped)

\* a file name without its last suffix (a leading dot starts no suffix)
WithoutSuffix(name) ==
    LET last == CHOOSE d \in 0..Len(name) :
                    /\ d = 0 \/ name[d] = "."
                    /\ \A e \in (d + 1)..Len(name) : name[e] # "."
    IN IF last <= 1 THEN name ELSE SubSeq(name, 1, last - 1)

OutputNamed(r) == req[r].kind \in {"extract", "merge"} /\ req[r].output_filename # <<>>

\* C15: the output path of an extract request is "extracted_" + the stem of
\* the sanitized input name + ".pdf" and that of a merge request is
\* "merged.pdf"; so two extract requests on names with the same stem, and any
\* two merge requests, have the same output path.
C15_OutputNameCollision ==
    /\ \A r \in Reqs :
          OutputNamed(r) =>
              req[r].output_filename =
                  IF req[r].kind = "extract"
                  THEN <<"extracted_">> \o WithoutSuffix(req[r].filename) \o <<".", "p", "d", "f">>
                  ELSE <<"merged", ".", "p", "d", "f">>
    /\ \A r \in Reqs : \A s \in Reqs :
          ( /\ OutputNamed(r) /\ OutputNamed(s) /\ req[r].kind = req[s].kind
            /\ req[r].kind = "extract"
                  => WithoutSuffix(req[r].filename) = WithoutSuffix(req[s].filename) )
          => req[r].output_filename = req[s].output_filename

\* an extract request is about to report success and redirect to its output
\* path, and the file there is the complete output of the other request, in
\* flight on a file with another name and the same stem
C15_Witness ==
    \E r \in Reqs : \E s \in Reqs \ {r} :
        /\ req[r].kind = "extract" /\ req[s].kind = "extract"
        /\ req[r].filename # req[s].filename
        /\ req[r].pc = "x_flash_ok" /\ ~Done(s)
        /\ downloads[req[r].output_filename].by = s
        /\ downloads[req[r].output_filename].ok
        /\ downloads[req[r].output_filename].pages = req[s].writer
        /\ req[s].writer # req[r].writer

\* C16: a completed extract or merge request has emitted exactly one message,
\* whatever the exit path, a failing cleanup step included.
C16_SingleOutcome ==
    \A r \in Reqs :
        ( req[r].kind \in {"extract", "merge"} /\ Done(r) ) => Len(req[r].flashes) = 1

\* a completed request that did not succeed has left nothing of its own in the
\* download folder
NoOutputOf(r) == \A p \in OutputPaths : downloads[p].by # r

\* C18: a request that ends by reporting a failure has not created, truncated
\* or modified any file in the download folder.
C18_FailureLeavesOutputUnchanged ==
    \A r \in Reqs :
        ( req[r].kind \in {"extract", "merge"} /\ Done(r) /\ Failed(r) ) => NoOutputOf(r)

\* the complete output of extract request r is at its output path
OutputWritten(r) ==
    /\ req[r].output_filename \in OutputPaths
    /\ downloads[req[r].output_filename]
          = [exists |-> TRUE, by |-> r, ok |-> TRUE, pages |-> req[r].writer]

\* the upload of extract request r is staged, complete, at its input path
UploadStaged(r) ==
    /\ req[r].input_path \in UploadPaths
    /\ uploads[req[r].input_path] = DocFile(r, 1, req[r].files[1].n)

\* a step taken by extract request r keeps the order of the stages
ExtractStepInOrder(r) ==
    LET rec == req[r]
        parsed == ParsePages(rec.pages_input)
    IN \* the upload is staged before anything is parsed, written or reported
       /\ uploads' # uploads /\ (\E p \in UploadPaths : ~uploads[p].exists /\ uploads'[p].exists)
             => rec.output_filename = <<>> /\ rec.pages = <<>> /\ ~rec.outOpened
                /\ rec.flashes = <<>>
       \* the page spec is parsed once the upload is staged
       /\ req'[r].output_filename # rec.output_filename
             => UploadStaged(r) /\ ~rec.outOpened
       \* the output is opened and written only after the whole page spec has
       \* parsed and the pages were copied
       /\ downloads' # downloads
             => /\ parsed.ok /\ rec.pages = parsed.pages
                /\ rec.output_filename # <<>>
                /\ UploadStaged(r)
                /\ rec.writer # <<>>
                /\ rec.writer = [k \in 1..Len(rec.writer) |->
                                    <<r, 1, InRange(rec.pages, rec.files[1].n)[k]>>]
       \* on the success path the staged upload is deleted only after the
       \* output has been written
       /\ ( /\ rec.input_path \in UploadPaths
            /\ uploads[rec.input_path].exists /\ ~uploads'[rec.input_path].exists
            /\ rec.exc = NoExc )
             => OutputWritten(r)
       \* success is reported only after the staged upload has been deleted
       /\ ( /\ Len(req'[r].flashes) > Len(rec.flashes)
            /\ req'[r].flashes[Len(req'[r].flashes)].cat = "success" )
             => /\ OutputWritten(r)
                /\ ~uploads[rec.input_path].exists

\* C17: every step of an extract request keeps the order stage upload, parse
\* page spec, copy pages, write output, delete staged upload, report success:
\* the output is written only after the whole page spec has parsed, the
\* staged upload is deleted on the success path only after the output was
\* written, and success is reported only after the upload was deleted.
C17_ExtractFlowOrdering ==
    [][\A r \in Reqs :
          ( req[r].kind = "extract" /\ req'[r] # req[r] ) => ExtractStepInOrder(r)]_vars

\* an extract request went through every stage and reported success
C17_Witness ==
    \E r \in Reqs :
        /\ req[r].kind = "extract" /\ Done(r) /\ req[r].redirect = "download"
        /\ req[r].flashes[1].cat = "success"
        /\ OutputWritten(r)
        /\ ~uploads[req[r].input_path].exists
        /\ Len(req[r].pages) > Len(req[r].writer)

====
